---- MODULE Spec2Model ----
\* A model of RDMPipeline (src/src/diffusers/pipelines/rdm/pipeline_rdm.py):
\* the pipeline object after construction and one run of RDMPipeline.__call__,
\* cut into steps at every call of a collaborator (tokenizer, CLIP, feature
\* extractor, scheduler, UNet, callback, VAE).
EXTENDS Integers, Sequences, FiniteSets, TLC

\* ------------------------------------------------------------------ bounds
MaxBatch == 2
MaxSteps == 3
MaxImagesPerPrompt == 2
MaxRetrieved == 2

\* ------------------------------------------------------- program constants
\* unet.in_channels and the decoder's output channels of the test components
in_channels == 4
out_channels == 3
\* 1 / vae.config.scaling_factor, taken as a whole number
InvScalingFactor == 5

\* ----------------------------------------------------------------- helpers
RECURSIVE Concat(_)
\* torch.cat of a sequence of sequences along the axis the sequences run on
Concat(ss) == IF ss = <<>> THEN <<>> ELSE Head(ss) \o Concat(Tail(ss))

RECURSIVE Times(_, _)
\* Tensor.repeat along one axis: the sequence s tiled n times
Times(s, n) == IF n <= 0 THEN <<>> ELSE s \o Times(s, n - 1)

\* ceil(a / b) for b > 0
CeilDiv(a, b) == (a + b - 1) \div b

\* ---------------------------------------------------- values of the inputs
None == [given |-> FALSE, shape |-> <<>>, rows |-> <<>>]

\* tokenizer.model_max_length (line 318), and the token counts of a prompt that
\* fits and of one that does not
ModelMaxLength == 4
FewTokens == ModelMaxLength - 1
ManyTokens == ModelMaxLength + 2

\* A prompt: its Python type, len(prompt), whether it holds only strings, and
\* the number of tokens of its longest string.
Prompts ==
    {[type |-> "str", len |-> 5, strs |-> TRUE, tokens |-> FewTokens]}
    \cup {[type |-> "list", len |-> n, strs |-> TRUE, tokens |-> FewTokens] :
             n \in 1..MaxBatch}
    \cup {[type |-> "list", len |-> 1, strs |-> FALSE, tokens |-> FewTokens],
          [type |-> "tuple", len |-> 2, strs |-> TRUE, tokens |-> FewTokens],
          [type |-> "int", len |-> 0, strs |-> FALSE, tokens |-> 0]}

GoodPrompts == {p \in Prompts : p.type \in {"str", "list"} /\ p.strs}

\* the same prompts with a string of more tokens than the tokenizer keeps
LongPrompts == {[p EXCEPT !.tokens = ManyTokens] : p \in GoodPrompts}

\* callback_steps: its Python type and its value
CallbackStepsValues ==
    {[type |-> "NoneType", val |-> 0], [type |-> "float", val |-> 2]}
    \cup {[type |-> "int", val |-> v] : v \in -1..(MaxSteps + 1)}

GoodCallbackSteps == {c \in CallbackStepsValues : c.type = "int" /\ c.val > 0}

Dims == {-8, 0, 4, 8, 16}
GuidanceScales == {0, 1, 2}

\* The shape RDMPipeline's documentation asks of a supplied latents tensor.
ExpectedShape(prompt, n, height, width, f) ==
    << (IF prompt.type = "str" THEN 1 ELSE prompt.len) * n, in_channels,
       height \div f, width \div f >>

\* A supplied latents tensor of shape s; one value stands for each batch row.
Supplied(s) == [given |-> TRUE, shape |-> s, rows |-> [k \in 1..s[1] |-> 50 + k]]

\* None, a tensor of the expected shape, and a tensor wrong in one dimension.
LatentsChoices(prompt, n, height, width, f) ==
    LET e == ExpectedShape(prompt, n, height, width, f)
    IN  {None, Supplied(e), Supplied([e EXCEPT ![3] = @ + 1])}

NoImages == [given |-> FALSE, n |-> 0]
RetrievedChoices == {NoImages} \cup {[given |-> TRUE, n |-> r] : r \in 1..MaxRetrieved}

\* The arguments of one call; everything not listed keeps its default.
Arguments(prompt, retrieved_images, height, width, steps, scale, n, gen, lat, cb, cbs) ==
    [prompt |-> prompt, retrieved_images |-> retrieved_images,
     height |-> height, width |-> width, num_inference_steps |-> steps,
     guidance_scale |-> scale, num_images_per_prompt |-> n, eta |-> 0,
     generator |-> gen, latents |-> lat, callback |-> cb, callback_steps |-> cbs]

NoArguments ==
    Arguments([type |-> "str", len |-> 0, strs |-> TRUE, tokens |-> 0], NoImages, 0, 0, 0, 0, 0, 0,
              None, FALSE, [type |-> "NoneType", val |-> 0])

\* Calls that exercise the validation at the head of __call__.
ValidationArguments(f) ==
    {Arguments(p, NoImages, h, w, 1, 1, 1, 1, l, cb, cbs) :
        p \in Prompts, h \in Dims, w \in {0, 8, 12, 16}, cb \in BOOLEAN,
        cbs \in CallbackStepsValues,
        l \in {None, Supplied(<<1, in_channels, 1, 1>>)}}

\* Calls that pass the validation and exercise the embedding and the loop, on
\* the pipelines whose VAE has the factor 8 of the released checkpoints.
\* callback_steps varies only where a callback can observe it.
LoopArguments(f) ==
    IF f # 8 THEN {}
    ELSE UNION {{Arguments(p, r, 16, 16, steps, scale, n, 1, l, cb, cbs) :
                    l \in LatentsChoices(p, n, 16, 16, f),
                    cbs \in IF cb THEN GoodCallbackSteps ELSE {[type |-> "int", val |-> 1]}} :
            p \in GoodPrompts, r \in RetrievedChoices, steps \in 1..MaxSteps,
            scale \in GuidanceScales, n \in 1..MaxImagesPerPrompt, cb \in BOOLEAN}

\* Calls whose prompt has more tokens than tokenizer.model_max_length.
TruncationArguments(f) ==
    IF f # 8 THEN {}
    ELSE {Arguments(p, NoImages, 16, 16, 1, scale, 1, 1, None, FALSE,
                    [type |-> "int", val |-> 1]) :
            p \in LongPrompts, scale \in {1, 2}}

\* The calls made twice on one pipeline: with and without a generator, with
\* sampled and with supplied latents, with and without a callback.
TwinArguments(f) ==
    IF f # 8 THEN {}
    ELSE UNION {{Arguments(p, IF p.type = "str" THEN NoImages
                              ELSE [given |-> TRUE, n |-> 1],
                           16, 16, MaxSteps - 1, scale, 1, gen, l, cb,
                           [type |-> "int", val |-> 1]) :
                    l \in {None, Supplied(ExpectedShape(p, 1, 16, 16, f))}} :
            p \in {q \in GoodPrompts : q.type = "str" \/ q.len = MaxBatch},
            scale \in {1, 2}, gen \in {0, 1}, cb \in BOOLEAN}

\* The calls made one after the other on one pipeline: with a size that is
\* refused and one that is not, each step count, with and without a callback.
SequenceArguments(f) ==
    IF f # 8 THEN {}
    ELSE {Arguments([type |-> "str", len |-> 5, strs |-> TRUE, tokens |-> FewTokens],
                    NoImages, h, 16, steps, 1, 1, 1, None, cb,
                    [type |-> "int", val |-> 1]) :
            h \in {12, 16}, steps \in 1..MaxSteps, cb \in BOOLEAN}

\* The calls followed to their end: a size that is refused and one that is not,
\* each step count, with and without guidance and callback, latents sampled
\* and supplied.
LiveArguments(f) ==
    IF f # 8 THEN {}
    ELSE UNION {{Arguments(p, NoImages, h, 16, steps, scale, 1, 1, l, cb,
                           [type |-> "int", val |-> MaxSteps - 1]) :
                    l \in {None, Supplied(ExpectedShape(p, 1, h, 16, f))}} :
            p \in {q \in GoodPrompts : q.type = "str"}, h \in {12, 16},
            steps \in 1..MaxSteps, scale \in {1, 2}, cb \in BOOLEAN}

\* The calls made while a second invocation runs.
ConcurrentArguments(f) ==
    IF f # 8 THEN {}
    ELSE {Arguments([type |-> "str", len |-> 5, strs |-> TRUE, tokens |-> FewTokens],
                    NoImages, 16, 16, steps, 1, 1, 1, None, FALSE,
                    [type |-> "int", val |-> 1]) : steps \in 1..MaxSteps}

\* ------------------------------------------- the head of __call__ (296-312)
PromptTypeOk(prompt) == prompt.type \in {"str", "list"}

\* len(prompt) taken of a str as well
BatchSize_LenOfStr(prompt) == prompt.len

BatchSize(prompt) == IF prompt.type = "str" THEN 1 ELSE prompt.len

SizeInvalid(height, width) == height % 8 # 0 \/ width % 8 # 0

\* the isinstance test of line 307 left out
CallbackStepsInvalid_NoTypeTest(callback_steps) ==
    callback_steps.type = "NoneType" \/ callback_steps.val <= 0

CallbackStepsInvalid(callback_steps) ==
    \/ callback_steps.type = "NoneType"
    \/ /\ callback_steps.type # "NoneType"
       /\ (callback_steps.type # "int" \/ callback_steps.val <= 0)

\* ---------------------------------------------- tokenizer (315-330)
\* self.tokenizer(prompt, padding="max_length", max_length=max_length,
\* truncation=True): the number of ids returned for a prompt of that many tokens
Tokenize(tokens, max_length) ==
    LET truncated == IF tokens > max_length THEN max_length ELSE tokens
    IN  IF truncated < max_length THEN max_length ELSE truncated

\* line 324: text_input_ids.shape[-1] > self.tokenizer.model_max_length
TooLong(text_input_ids, max_length) == text_input_ids > max_length

\* ---------------------------------------------- embeddings (331-363)
\* The normalised CLIP embedding of prompt j and of retrieved image r, as
\* distinct non-zero tokens; 0 is the entry of torch.zeros_like.
TextEmb(j) == j
ImageEmb(r) == 10 * r

\* text_embeddings[:, None, :]: one row per prompt, sequence length 1
TextRows(batch_size) == [j \in 1..batch_size |-> <<TextEmb(j)>>]

\* the repeat of line 344 left out: only the first prompt gets the images
WithImages_Unrepeated(text_embeddings, batch_size, n_images) ==
    [b \in 1..Len(text_embeddings) |->
        IF b = 1 THEN text_embeddings[b] \o [r \in 1..n_images |-> ImageEmb(r)]
        ELSE text_embeddings[b]]

\* lines 343-345: image_embeddings[None, ...].repeat(batch_size, 1, 1), then
\* torch.cat([text_embeddings, image_embeddings], dim=1)
WithImages(text_embeddings, batch_size, n_images) ==
    LET image_embeddings == [b \in 1..batch_size |-> [r \in 1..n_images |-> ImageEmb(r)]]
    IN  [b \in 1..Len(text_embeddings) |-> text_embeddings[b] \o image_embeddings[b]]

\* repeat(n, 1, 1) in place of lines 348-350: the whole batch tiled n times
Replicate_BatchTiled(text_embeddings, n) ==
    [k \in 1..(Len(text_embeddings) * n) |->
        text_embeddings[((k - 1) % Len(text_embeddings)) + 1]]

\* lines 348-350: repeat(1, n, 1) tiles every prompt's sequence n times, and
\* view(bs_embed * n, seq_len, -1) cuts the flattened entries into rows of seq_len
Replicate(text_embeddings, n) ==
    LET bs_embed == Len(text_embeddings)
        seq_len == Len(text_embeddings[1])
        flat == Concat([b \in 1..bs_embed |-> Times(text_embeddings[b], n)])
    IN  [k \in 1..(bs_embed * n) |-> SubSeq(flat, (k - 1) * seq_len + 1, k * seq_len)]

\* the comparison of line 355 made inclusive
DoClassifierFreeGuidance_AtLeastOne(guidance_scale) == guidance_scale >= 1

DoClassifierFreeGuidance(guidance_scale) == guidance_scale > 1

ZerosLike(text_embeddings) ==
    [k \in 1..Len(text_embeddings) |-> [p \in 1..Len(text_embeddings[k]) |-> 0]]

\* the zero block put after the conditional rows
WithUncond_Appended(text_embeddings) == text_embeddings \o ZerosLike(text_embeddings)

\* line 363: torch.cat([uncond_embeddings, text_embeddings])
WithUncond(text_embeddings) == ZerosLike(text_embeddings) \o text_embeddings

\* ------------------------------------------------- latents (365-377)
\* num_images_per_prompt forgotten in the batch dimension
LatentsShape_OnePerPrompt(batch_size, n, height, width, f) ==
    << batch_size, in_channels, height \div f, width \div f >>

\* the factor of line 303 used where line 368 reads self.vae_scale_factor
LatentsShape_Hardcoded8(batch_size, n, height, width, f) ==
    << batch_size * n, in_channels, height \div 8, width \div 8 >>

LatentsShape(batch_size, n, height, width, f) ==
    << batch_size * n, in_channels, height \div f, width \div f >>

\* the comparison of line 375 left out
LatentsMismatch_Never(shape, latents_shape) == FALSE

LatentsMismatch(shape, latents_shape) == shape # latents_shape

\* randn_tensor(latents_shape, generator=generator): one value per batch row
\* every draw made from torch's default generator, a generator passed or not
Draw_IgnoresGenerator(generator, default) ==
    [seed |-> 2 + default, default |-> default + 1]

\* The generator a draw reads, and torch's default generator after the draw:
\* the generator passed (its state, not 0), or with generator=None the default
\* generator, which the draw advances.
Draw(generator, default) ==
    IF generator # 0 THEN [seed |-> generator, default |-> default]
    ELSE [seed |-> 2 + default, default |-> default + 1]

RandnRows(latents_shape, seed) == [k \in 1..latents_shape[1] |-> 10 * seed + k]

\* ------------------------------------------------------------- scheduler
SchedulerKinds == {"ddim", "euler_ancestral", "fewer_steps"}

\* the parameters scheduler.step declares besides (model_output, timestep, sample)
StepParameters(kind) ==
    CASE kind = "ddim" -> {"eta", "generator"}
      [] kind = "euler_ancestral" -> {"generator"}
      [] OTHER -> {}

\* scheduler.set_timesteps(num_inference_steps): the timesteps, in descending order
SetTimesteps(kind, num_inference_steps) ==
    LET len == IF kind = "fewer_steps" THEN num_inference_steps - 1
               ELSE num_inference_steps
    IN  [j \in 1..len |-> 10 * (len - j + 1)]

InitNoiseSigma(kind) == IF kind = "euler_ancestral" THEN 2 ELSE 1

\* scheduler.scale_model_input(sample, t), row by row
ScaleModelInput(kind, sample, t) ==
    [k \in 1..Len(sample) |-> IF kind = "euler_ancestral" THEN sample[k] + t ELSE sample[k]]

\* scheduler.step(model_output, t, sample, **kwargs).prev_sample, row by row
SchedulerStep(kind, model_output, t, sample, kwargs, default) ==
    [k \in 1..Len(sample) |->
        sample[k] - model_output[k]
        + (IF "generator" \in DOMAIN kwargs
           THEN Draw(kwargs.generator, default).seed ELSE 0)]

\* torch's default generator after that step
AfterStep(kwargs, default) ==
    IF "generator" \in DOMAIN kwargs THEN Draw(kwargs.generator, default).default
    ELSE default

\* ------------------------------------------------------------ the UNet
RECURSIVE Sum(_)
Sum(s) == IF s = <<>> THEN 0 ELSE Head(s) + Sum(Tail(s))

\* One batch row of unet(latent_model_input, t, encoder_hidden_states).sample:
\* it depends on the row's latent, the timestep and the row's conditioning.
UNetRow(x, t, c) == x + t + 7 * Sum(c)

UNet(latent_model_input, t, encoder_hidden_states) ==
    [k \in 1..Len(latent_model_input) |->
        UNetRow(latent_model_input[k], t, encoder_hidden_states[k])]

\* ------------------------------------------------ the loop body (405-421)
\* line 405: torch.cat([latents] * 2) if do_classifier_free_guidance else latents
LatentModelInput(rows, do_classifier_free_guidance) ==
    IF do_classifier_free_guidance THEN Times(rows, 2) ELSE rows

\* the two chunks of line 413 taken in the other order
Guidance_Swapped(noise_pred, guidance_scale) ==
    LET half == Len(noise_pred) \div 2
        noise_pred_text == SubSeq(noise_pred, 1, half)
        noise_pred_uncond == SubSeq(noise_pred, half + 1, Len(noise_pred))
    IN  [k \in 1..half |->
            noise_pred_uncond[k]
            + guidance_scale * (noise_pred_text[k] - noise_pred_uncond[k])]

\* lines 413-414: noise_pred.chunk(2), then the guidance arithmetic
Guidance(noise_pred, guidance_scale) ==
    LET half == Len(noise_pred) \div 2
        noise_pred_uncond == SubSeq(noise_pred, 1, half)
        noise_pred_text == SubSeq(noise_pred, half + 1, Len(noise_pred))
    IN  [k \in 1..half |->
            noise_pred_uncond[k]
            + guidance_scale * (noise_pred_text[k] - noise_pred_uncond[k])]

\* the callback called after every callback_steps-th step, not from step 0
CallbackDue_EndOfPeriod(callback, i, callback_steps) ==
    callback /\ (i + 1) % callback_steps.val = 0

\* line 420
CallbackDue(callback, i, callback_steps) == callback /\ i % callback_steps.val = 0

\* ------------------------------------------------------- decode (423-429)
\* vae.decode upsamples both spatial dimensions by the factor of the VAE;
\* permute(0, 2, 3, 1) moves the channels last
ImageShape(latents_shape, f) ==
    << latents_shape[1], latents_shape[3] * f, latents_shape[4] * f, out_channels >>

\* ------------------------------------------------------------------ state
VARIABLES
    vae_scale_factor,    \* self.vae_scale_factor, set by __init__ (line 127)
    scheduler,           \* self.scheduler: its kind and its mutable state
    pc,                  \* where the call stands: the next collaborator call
    error,               \* the exception the call ended with, or "none"
    args,                \* the arguments of the call
    batch_size,          \* lines 296-299
    text_embeddings,     \* the conditioning rows, each a sequence of embeddings
    latents,             \* [shape, rows]: the latent tensor and one value per row
    timesteps_tensor,    \* line 384
    extra_step_kwargs,   \* lines 393-401
    i,                   \* the loop index of line 403
    latent_model_input,  \* lines 405-406
    noise_pred,          \* line 409
    image,               \* the shape of the returned image batch
    calls,               \* every collaborator call made so far, in order
    vae,                 \* self.vae: the flags its enable_/disable_ methods set
    text_input_ids,      \* line 322: the number of ids per prompt
    warnings,            \* what logger.warning was called with
    default_generator,   \* the state of torch's default generator
    previous,            \* the call made earlier on this pipeline, if any
    other,               \* a second invocation running at the same time, if any
    caller               \* the caller's latents tensor and image list, as they are now

vars == << vae_scale_factor, scheduler, pc, error, args, batch_size, text_embeddings,
           latents, timesteps_tensor, extra_step_kwargs, i, latent_model_input,
           noise_pred, image, calls, vae, text_input_ids, warnings,
           default_generator, previous, other, caller >>

\* One entry of the call log.
CallOf(op, idx, t, sample, cond, pred, kwargs, out) ==
    [op |-> op, i |-> idx, t |-> t, sample |-> sample, cond |-> cond, pred |-> pred,
     kwargs |-> kwargs, out |-> out, raised |-> FALSE]

Plain(op) == CallOf(op, -1, -1, <<>>, <<>>, <<>>, <<>>, <<>>)

\* 2 ** (len(self.vae.config.block_out_channels) - 1)
VaeScaleFactor(blocks) == 2 ^ (blocks - 1)

\* No second invocation runs beside this one.
NoOther ==
    [pc |-> "absent", shared |-> FALSE, num_inference_steps |-> 0, i |-> 0,
     timesteps_tensor |-> <<>>,
     scheduler |-> [timesteps |-> <<>>, steps_taken |-> 0]]

\* The objects the caller passes: the values of its latents tensor, the pixel
\* values of its images, and whether the local name latents of __call__ is
\* bound to the caller's tensor itself.
NoCaller == [latents |-> <<>>, images |-> <<>>, aliased |-> FALSE]

\* the retrieved images, one pixel value for each: white and black in turn
Pixels(n_images) == [r \in 1..n_images |-> IF r % 2 = 1 THEN 255 ELSE 0]

\* lines 28-29: np.array(image) for every image, then image / 127.5 - 1
NormalizeImages(images) == [r \in 1..Len(images) |-> (2 * images[r]) \div 255 - 1]

\* lines 27-29: list comprehensions build new lists of new arrays, and the
\* caller's list and images stay as they are
NewList(c, values) == c

\* latents *= ..., writing through to the tensor the name is bound to
NewTensor_InPlace(c, rows) == IF c.aliased THEN [c EXCEPT !.latents = rows] ELSE c

\* lines 387 and 423: latents = latents * ..., a new tensor bound to the local
\* name, whatever the name was bound to
NewTensor(c, rows) == [c EXCEPT !.aliased = FALSE]

\* No call was made yet; the default generator is in its seeded state 0.
NoPrevious ==
    [done |-> FALSE, args |-> NoArguments, calls |-> <<>>, image |-> <<>>,
     error |-> "none", pc |-> "idle", default_at_entry |-> 0]

\* The pipelines constructed: a VAE of 3, 4 or 5 blocks with a DDIM-like
\* scheduler, and every scheduler kind with the VAE of 4 blocks.
Pipelines ==
    {[blocks |-> b, scheduler |-> "ddim"] : b \in {3, 4, 5}}
    \cup {[blocks |-> 4, scheduler |-> k] : k \in SchedulerKinds}

Init ==
    /\ \E made \in Pipelines :
        /\ vae_scale_factor = VaeScaleFactor(made.blocks)
        /\ scheduler = [kind |-> made.scheduler, timesteps |-> <<>>,
                        init_noise_sigma |-> 1, steps_taken |-> 0]
    /\ pc = "idle"
    /\ error = "none"
    /\ args = NoArguments
    /\ batch_size = 0
    /\ text_embeddings = <<>>
    /\ latents = None
    /\ timesteps_tensor = <<>>
    /\ extra_step_kwargs = <<>>
    /\ i = 0
    /\ latent_model_input = <<>>
    /\ noise_pred = <<>>
    /\ image = <<>>
    /\ calls = <<>>
    /\ vae = [use_slicing |-> FALSE, use_tiling |-> FALSE]
    /\ text_input_ids = 0
    /\ warnings = <<>>
    /\ default_generator = 0
    /\ previous = NoPrevious
    /\ other = NoOther
    /\ caller = NoCaller

Raise(kind) == pc' = "raised" /\ error' = kind

\* __call__ is entered with one of the given arguments: lines 296-312, the
\* checks that need no collaborator.
InvokeWith(arguments) ==
    /\ pc = "idle"
    /\ \E a \in arguments :
        /\ args' = a
        /\ caller' = [latents |-> a.latents.rows,
                      images |-> Pixels(a.retrieved_images.n), aliased |-> FALSE]
        /\ IF ~PromptTypeOk(a.prompt)
             THEN Raise("prompt") /\ UNCHANGED batch_size
           ELSE IF SizeInvalid(a.height, a.width)
             THEN Raise("size") /\ batch_size' = BatchSize(a.prompt)
           ELSE IF CallbackStepsInvalid(a.callback_steps)
             THEN Raise("callback_steps") /\ batch_size' = BatchSize(a.prompt)
           ELSE /\ pc' = "tokenizer"
                /\ batch_size' = BatchSize(a.prompt)
                /\ UNCHANGED error
    /\ UNCHANGED << vae, text_input_ids, warnings, default_generator, previous, other >>
    /\ UNCHANGED << vae_scale_factor, scheduler, text_embeddings, latents,
                    timesteps_tensor, extra_step_kwargs, i, latent_model_input,
                    noise_pred, image, calls >>

\* The first call on a pipeline.
Invoke ==
    /\ ~previous.done
    /\ InvokeWith(ValidationArguments(vae_scale_factor)
                  \cup LoopArguments(vae_scale_factor)
                  \cup TruncationArguments(vae_scale_factor))

\* lines 315-330: self.tokenizer(prompt, ...), and the warning and the cut of
\* lines 324-330 when the ids returned are longer than model_max_length
Tokenizer ==
    /\ pc = "tokenizer"
    /\ calls' = Append(calls, Plain("tokenizer"))
    /\ LET ids == Tokenize(args.prompt.tokens, ModelMaxLength)
       IN  IF TooLong(ids, ModelMaxLength)
           THEN /\ warnings' = Append(warnings, "truncated")
                /\ text_input_ids' = ModelMaxLength
           ELSE /\ text_input_ids' = ids
                /\ UNCHANGED warnings
    /\ pc' = "get_text_features"
    /\ UNCHANGED << vae, default_generator, previous, other, caller >>
    /\ UNCHANGED << vae_scale_factor, scheduler, error, args, batch_size,
                    text_embeddings, latents, timesteps_tensor, extra_step_kwargs, i,
                    latent_model_input, noise_pred, image >>

\* lines 331-335: self.clip.get_text_features, the norm and [:, None, :]
GetTextFeatures ==
    /\ pc = "get_text_features"
    /\ calls' = Append(calls, Plain("get_text_features"))
    /\ text_embeddings' = TextRows(batch_size)
    /\ pc' = IF args.retrieved_images.given THEN "feature_extractor" ELSE "prepare_latents"
    /\ UNCHANGED << vae, text_input_ids, warnings, default_generator, previous, other, caller >>
    /\ UNCHANGED << vae_scale_factor, scheduler, error, args, batch_size, latents,
                    timesteps_tensor, extra_step_kwargs, i, latent_model_input,
                    noise_pred, image >>

\* lines 337-340: normalize_images, then preprocess_images calls feature_extractor
FeatureExtractor ==
    /\ pc = "feature_extractor"
    /\ calls' = Append(calls, Plain("feature_extractor"))
    /\ pc' = "get_image_features"
    /\ caller' = NewList(caller, NormalizeImages(caller.images))
    /\ UNCHANGED << vae, text_input_ids, warnings, default_generator, previous, other >>
    /\ UNCHANGED << vae_scale_factor, scheduler, error, args, batch_size,
                    text_embeddings, latents, timesteps_tensor, extra_step_kwargs, i,
                    latent_model_input, noise_pred, image >>

\* lines 341-345: self.clip.get_image_features, the norm, repeat and cat
GetImageFeatures ==
    /\ pc = "get_image_features"
    /\ calls' = Append(calls, Plain("get_image_features"))
    /\ text_embeddings' = WithImages(text_embeddings, batch_size, args.retrieved_images.n)
    /\ pc' = "prepare_latents"
    /\ UNCHANGED << vae, text_input_ids, warnings, default_generator, previous, other, caller >>
    /\ UNCHANGED << vae_scale_factor, scheduler, error, args, batch_size, latents,
                    timesteps_tensor, extra_step_kwargs, i, latent_model_input,
                    noise_pred, image >>

\* lines 347-363: the conditioning the loop will use
Conditioning(embeddings, n, guidance_scale) ==
    IF DoClassifierFreeGuidance(guidance_scale)
    THEN WithUncond(Replicate(embeddings, n))
    ELSE Replicate(embeddings, n)

\* lines 347-377: replicate, prepend the unconditional block, then sample the
\* latents or check the supplied ones. torch refuses a negative dimension.
\* latents.to(self.device) of line 377 is the caller's tensor itself when that
\* tensor is on the device already, as it is for a pipeline on the CPU.
PrepareLatents ==
    /\ pc = "prepare_latents"
    /\ text_embeddings' = Conditioning(text_embeddings, args.num_images_per_prompt,
                                       args.guidance_scale)
    /\ LET latents_shape == LatentsShape(batch_size, args.num_images_per_prompt,
                                         args.height, args.width, vae_scale_factor)
           draw == Draw(args.generator, default_generator)
       IN  IF ~args.latents.given
           THEN IF \E d \in 1..4 : latents_shape[d] < 0
                THEN /\ calls' = Append(calls, Plain("randn_tensor"))
                     /\ Raise("randn_tensor")
                     /\ UNCHANGED << latents, default_generator >>
                ELSE /\ latents' = [given |-> TRUE, shape |-> latents_shape,
                                    rows |-> RandnRows(latents_shape, draw.seed)]
                     /\ calls' = Append(calls, [Plain("randn_tensor")
                                                EXCEPT !.out = latents'.rows])
                     /\ default_generator' = draw.default
                     /\ pc' = "set_timesteps"
                     /\ UNCHANGED error
           ELSE /\ UNCHANGED << calls, default_generator >>
                /\ IF LatentsMismatch(args.latents.shape, latents_shape)
                   THEN Raise("latents") /\ UNCHANGED latents
                   ELSE /\ latents' = args.latents
                        /\ pc' = "set_timesteps"
                        /\ UNCHANGED error
    /\ caller' = [caller EXCEPT !.aliased = (pc' = "set_timesteps" /\ args.latents.given)]
    /\ UNCHANGED << vae, text_input_ids, warnings, previous, other >>
    /\ UNCHANGED << vae_scale_factor, scheduler, args, batch_size, timesteps_tensor,
                    extra_step_kwargs, i, latent_model_input, noise_pred, image >>

\* eta and generator passed whatever the signature of step declares
ExtraStepKwargs_Unchecked(kind, eta, generator) ==
    [eta |-> eta, generator |-> generator]

\* lines 393-401: what inspect.signature(self.scheduler.step) allows
ExtraStepKwargs(kind, eta, generator) ==
    LET accepts_eta == "eta" \in StepParameters(kind)
        accepts_generator == "generator" \in StepParameters(kind)
    IN  IF accepts_eta /\ accepts_generator THEN [eta |-> eta, generator |-> generator]
        ELSE IF accepts_eta THEN [eta |-> eta]
        ELSE IF accepts_generator THEN [generator |-> generator]
        ELSE <<>>

\* line 387: latents * self.scheduler.init_noise_sigma
Scaled(rows, sigma) == [k \in 1..Len(rows) |-> rows[k] * sigma]

\* latents that the caller supplied left unscaled
ScaleInitialNoise_OnlySampled(lat, sigma) ==
    IF args.latents.given THEN lat ELSE [lat EXCEPT !.rows = Scaled(@, sigma)]

\* line 387: latents = latents * self.scheduler.init_noise_sigma
ScaleInitialNoise(lat, sigma) == [lat EXCEPT !.rows = Scaled(@, sigma)]

\* the timesteps walked from the last to the first
Timestep_Reversed(timesteps, idx) == timesteps[Len(timesteps) - idx]

\* enumerate(timesteps_tensor) of line 403: the t of the iteration with index idx
Timestep(timesteps, idx) == timesteps[idx + 1]

\* the loop entered once more after the last timestep
LoopHead_PastTheEnd(idx, timesteps) ==
    IF idx <= Len(timesteps) THEN "scale_model_input" ELSE "decode"

\* the loop left one iteration early
LoopHead_OneShort(idx, timesteps) ==
    IF idx + 1 < Len(timesteps) THEN "scale_model_input" ELSE "decode"

\* the head of the for statement of line 403, entered with index idx
LoopHead(idx, timesteps) == IF idx < Len(timesteps) THEN "scale_model_input" ELSE "decode"

\* set_timesteps called by the first call on a pipeline only: a later call
\* goes on with the scheduler as the earlier call left it
CallSetTimesteps_OnlyFirst ==
    /\ pc = "set_timesteps"
    /\ IF previous.done
       THEN UNCHANGED << calls, scheduler >>
       ELSE /\ calls' = Append(calls, CallOf("set_timesteps", -1,
                                             args.num_inference_steps,
                                             <<>>, <<>>, <<>>, <<>>, <<>>))
            /\ scheduler' = [scheduler EXCEPT
                                !.timesteps = SetTimesteps(scheduler.kind,
                                                           args.num_inference_steps),
                                !.init_noise_sigma = InitNoiseSigma(scheduler.kind),
                                !.steps_taken = 0]
    /\ timesteps_tensor' = scheduler'.timesteps
    /\ latents' = ScaleInitialNoise(latents, scheduler'.init_noise_sigma)
    /\ extra_step_kwargs' = ExtraStepKwargs(scheduler.kind, args.eta, args.generator)
    /\ i' = 0
    /\ pc' = LoopHead(0, timesteps_tensor')
    /\ caller' = NewTensor(caller, latents'.rows)
    /\ UNCHANGED << vae, text_input_ids, warnings, default_generator, previous, other >>
    /\ UNCHANGED << vae_scale_factor, error, args, batch_size, text_embeddings,
                    latent_model_input, noise_pred, image >>

\* lines 380-401: set_timesteps, the timesteps, the initial scale, the kwargs
CallSetTimesteps ==
    /\ pc = "set_timesteps"
    /\ calls' = Append(calls, CallOf("set_timesteps", -1, args.num_inference_steps,
                                     <<>>, <<>>, <<>>, <<>>, <<>>))
    /\ scheduler' = [scheduler EXCEPT
                        !.timesteps = SetTimesteps(scheduler.kind, args.num_inference_steps),
                        !.init_noise_sigma = InitNoiseSigma(scheduler.kind),
                        !.steps_taken = 0]
    /\ timesteps_tensor' = scheduler'.timesteps
    /\ latents' = ScaleInitialNoise(latents, scheduler'.init_noise_sigma)
    /\ extra_step_kwargs' = ExtraStepKwargs(scheduler.kind, args.eta, args.generator)
    /\ i' = 0
    /\ pc' = LoopHead(0, timesteps_tensor')
    /\ caller' = NewTensor(caller, latents'.rows)
    /\ UNCHANGED << vae, text_input_ids, warnings, default_generator, previous, other >>
    /\ UNCHANGED << vae_scale_factor, error, args, batch_size, text_embeddings,
                    latent_model_input, noise_pred, image >>

\* lines 405-406
CallScaleModelInput ==
    /\ pc = "scale_model_input"
    /\ LET t == Timestep(timesteps_tensor, i)
           doubled == LatentModelInput(latents.rows,
                                       DoClassifierFreeGuidance(args.guidance_scale))
       IN  /\ latent_model_input' = ScaleModelInput(scheduler.kind, doubled, t)
           /\ calls' = Append(calls, CallOf("scale_model_input", i, t, doubled, <<>>,
                                            <<>>, <<>>, latent_model_input'))
    /\ pc' = "unet"
    /\ UNCHANGED << vae, text_input_ids, warnings, default_generator, previous, other, caller >>
    /\ UNCHANGED << vae_scale_factor, scheduler, error, args, batch_size,
                    text_embeddings, latents, timesteps_tensor, extra_step_kwargs, i,
                    noise_pred, image >>

\* line 409
CallUNet ==
    /\ pc = "unet"
    /\ LET t == Timestep(timesteps_tensor, i)
       IN  /\ noise_pred' = UNet(latent_model_input, t, text_embeddings)
           /\ calls' = Append(calls, CallOf("unet", i, t, latent_model_input,
                                            text_embeddings, <<>>, <<>>, noise_pred'))
    /\ pc' = "step"
    /\ UNCHANGED << vae, text_input_ids, warnings, default_generator, previous, other, caller >>
    /\ UNCHANGED << vae_scale_factor, scheduler, error, args, batch_size,
                    text_embeddings, latents, timesteps_tensor, extra_step_kwargs, i,
                    latent_model_input, image >>

\* lines 412-420: the guidance, scheduler.step, and whether the callback is due.
\* A keyword that step does not declare makes the call a TypeError.
CallStep ==
    /\ pc = "step"
    /\ LET t == Timestep(timesteps_tensor, i)
           guided == IF DoClassifierFreeGuidance(args.guidance_scale)
                     THEN Guidance(noise_pred, args.guidance_scale)
                     ELSE noise_pred
           prev_sample == SchedulerStep(scheduler.kind, guided, t, latents.rows,
                                        extra_step_kwargs, default_generator)
       IN  /\ noise_pred' = guided
           /\ IF DOMAIN extra_step_kwargs \subseteq StepParameters(scheduler.kind)
              THEN /\ latents' = [latents EXCEPT !.rows = prev_sample]
                   /\ calls' = Append(calls, CallOf("step", i, t, latents.rows, <<>>,
                                                    guided, extra_step_kwargs,
                                                    prev_sample))
                   /\ scheduler' = [scheduler EXCEPT !.steps_taken = @ + 1]
                   /\ default_generator' = AfterStep(extra_step_kwargs,
                                                     default_generator)
                   /\ IF CallbackDue(args.callback, i, args.callback_steps)
                      THEN pc' = "callback" /\ UNCHANGED i
                      ELSE pc' = LoopHead(i + 1, timesteps_tensor) /\ i' = i + 1
                   /\ UNCHANGED error
              ELSE /\ calls' = Append(calls, [CallOf("step", i, t, latents.rows, <<>>,
                                                     guided, extra_step_kwargs, <<>>)
                                              EXCEPT !.raised = TRUE])
                   /\ Raise("TypeError")
                   /\ UNCHANGED << latents, scheduler, i, default_generator >>
    /\ caller' = [caller EXCEPT !.aliased = @ /\ pc' = "raised"]
    /\ UNCHANGED << vae, text_input_ids, warnings, previous, other >>
    /\ UNCHANGED << vae_scale_factor, args, batch_size, text_embeddings,
                    timesteps_tensor, extra_step_kwargs, latent_model_input, image >>

\* the callback told the number of steps done, not the index of the step
CallbackCall_CountsFromOne(idx, timesteps, rows) ==
    CallOf("callback", idx + 1, Timestep(timesteps, idx), rows, <<>>, <<>>, <<>>, <<>>)

\* line 421: callback(i, t, latents), in the iteration with index idx
CallbackCall(idx, timesteps, rows) ==
    CallOf("callback", idx, Timestep(timesteps, idx), rows, <<>>, <<>>, <<>>, <<>>)

\* line 421: callback(i, t, latents) returns
CallbackReturns ==
    /\ pc = "callback"
    /\ calls' = Append(calls, CallbackCall(i, timesteps_tensor, latents.rows))
    /\ i' = i + 1
    /\ pc' = LoopHead(i + 1, timesteps_tensor)
    /\ UNCHANGED << vae, text_input_ids, warnings, default_generator, previous, other, caller >>
    /\ UNCHANGED << vae_scale_factor, scheduler, error, args, batch_size,
                    text_embeddings, latents, timesteps_tensor, extra_step_kwargs,
                    latent_model_input, noise_pred, image >>

\* the call of line 421 wrapped in a try statement that drops the exception
CallbackRaises_Swallowed ==
    /\ pc = "callback"
    /\ calls' = Append(calls, [CallbackCall(i, timesteps_tensor, latents.rows)
                               EXCEPT !.raised = TRUE])
    /\ i' = i + 1
    /\ pc' = LoopHead(i + 1, timesteps_tensor)
    /\ UNCHANGED << vae, text_input_ids, warnings, default_generator, previous, other, caller >>
    /\ UNCHANGED << vae_scale_factor, scheduler, error, args, batch_size,
                    text_embeddings, latents, timesteps_tensor, extra_step_kwargs,
                    latent_model_input, noise_pred, image >>

\* line 421: callback(i, t, latents) raises, and nothing catches it
CallbackRaises ==
    /\ pc = "callback"
    /\ calls' = Append(calls, [CallbackCall(i, timesteps_tensor, latents.rows)
                               EXCEPT !.raised = TRUE])
    /\ Raise("callback")
    /\ UNCHANGED << vae, text_input_ids, warnings, default_generator, previous, other, caller >>
    /\ UNCHANGED << vae_scale_factor, scheduler, args, batch_size, text_embeddings,
                    latents, timesteps_tensor, extra_step_kwargs, i,
                    latent_model_input, noise_pred, image >>

\* the pipeline cutting the batch itself when the VAE is set to slice
DecodeBatches_SlicedHere(rows, codec) ==
    IF codec.use_slicing THEN [k \in 1..Len(rows) |-> <<rows[k]>>] ELSE <<rows>>

\* line 424: the batches self.vae.decode is called with, one call each: the
\* whole latent batch, whatever the flags of the VAE
DecodeBatches(rows, codec) == <<rows>>

\* lines 423-437: rescale, vae.decode, and the image batch is returned
CallDecode ==
    /\ pc = "decode"
    /\ latents' = [latents EXCEPT !.rows = Scaled(@, InvScalingFactor)]
    /\ LET batches == DecodeBatches(latents'.rows, vae)
       IN  calls' = calls \o [b \in 1..Len(batches) |->
                                CallOf("decode", -1, -1, batches[b], <<>>, <<>>,
                                       <<>>, <<>>)]
    /\ image' = ImageShape(latents.shape, vae_scale_factor)
    /\ pc' = "returned"
    /\ caller' = NewTensor(caller, latents'.rows)
    /\ UNCHANGED << vae, text_input_ids, warnings, default_generator, previous, other >>
    /\ UNCHANGED << vae_scale_factor, scheduler, error, args, batch_size,
                    text_embeddings, timesteps_tensor, extra_step_kwargs, i,
                    latent_model_input, noise_pred >>

\* The collaborators __call__ reaches, by the position that calls them.
Collaborators ==
    {"tokenizer", "get_text_features", "feature_extractor", "get_image_features",
     "set_timesteps", "scale_model_input", "unet", "step", "decode"}

\* the failing call caught and made once more
CollaboratorRaises_Retried ==
    /\ pc \in Collaborators
    /\ calls = <<>> \/ ~calls[Len(calls)].raised
    /\ calls' = Append(calls, [Plain(pc) EXCEPT !.i = IF pc \in {"scale_model_input",
                                                   "unet", "step"} THEN i ELSE -1,
                                                !.raised = TRUE])
    /\ UNCHANGED << vae, text_input_ids, warnings, default_generator, previous, other, caller >>
    /\ UNCHANGED << vae_scale_factor, scheduler, pc, error, args, batch_size,
                    text_embeddings, latents, timesteps_tensor, extra_step_kwargs, i,
                    latent_model_input, noise_pred, image >>

\* A collaborator raises instead of returning: __call__ has no try statement,
\* so the exception leaves the call.
CollaboratorRaises ==
    /\ pc \in Collaborators
    /\ calls' = Append(calls, [Plain(pc) EXCEPT !.i = IF pc \in {"scale_model_input",
                                                   "unet", "step"} THEN i ELSE -1,
                                                !.raised = TRUE])
    /\ Raise("collaborator")
    /\ UNCHANGED << vae, text_input_ids, warnings, default_generator, previous, other, caller >>
    /\ UNCHANGED << vae_scale_factor, scheduler, args, batch_size, text_embeddings,
                    latents, timesteps_tensor, extra_step_kwargs, i,
                    latent_model_input, noise_pred, image >>

\* AutoencoderKL.enable_slicing, disable_slicing, enable_tiling, disable_tiling
EnableSlicing(codec) == [codec EXCEPT !.use_slicing = TRUE]
DisableSlicing(codec) == [codec EXCEPT !.use_slicing = FALSE]
EnableTiling(codec) == [codec EXCEPT !.use_tiling = TRUE]
DisableTiling(codec) == [codec EXCEPT !.use_tiling = FALSE]

\* what a method of the pipeline that only calls a method of self.vae leaves alone
OnlyVae ==
    UNCHANGED << vae_scale_factor, scheduler, pc, error, args, batch_size,
                 text_embeddings, latents, timesteps_tensor, extra_step_kwargs, i,
                 latent_model_input, noise_pred, image, calls, text_input_ids,
                 warnings, default_generator, previous, other, caller >>

\* lines 147-177, called between two calls of the pipeline
EnableVaeSlicing ==
    /\ pc = "idle" /\ previous.done
    /\ vae' = EnableSlicing(vae)
    /\ OnlyVae

DisableVaeSlicing ==
    /\ pc = "idle" /\ previous.done
    /\ vae' = DisableSlicing(vae)
    /\ OnlyVae

EnableVaeTiling ==
    /\ pc = "idle" /\ previous.done
    /\ vae' = EnableTiling(vae)
    /\ OnlyVae

DisableVaeTiling ==
    /\ pc = "idle" /\ previous.done
    /\ vae' = DisableTiling(vae)
    /\ OnlyVae

\* The call has ended and the caller keeps the pipeline for a second call: the
\* locals of __call__ are gone, self.scheduler and self.vae stay as the call
\* left them, and the caller may or may not re-seed the default generator.
Again ==
    /\ pc \in {"returned", "raised"}
    /\ ~previous.done
    /\ \E reseed \in BOOLEAN :
        /\ default_generator' = IF reseed THEN 0 ELSE default_generator
        /\ previous' = [done |-> TRUE, args |-> args, calls |-> calls, image |-> image,
                        error |-> error, pc |-> pc,
                        default_at_entry |-> default_generator']
    /\ pc' = "idle"
    /\ error' = "none"
    /\ args' = NoArguments
    /\ batch_size' = 0
    /\ text_embeddings' = <<>>
    /\ latents' = None
    /\ timesteps_tensor' = <<>>
    /\ extra_step_kwargs' = <<>>
    /\ i' = 0
    /\ latent_model_input' = <<>>
    /\ noise_pred' = <<>>
    /\ image' = <<>>
    /\ calls' = <<>>
    /\ text_input_ids' = 0
    /\ warnings' = <<>>
    /\ caller' = NoCaller
    /\ UNCHANGED << vae_scale_factor, scheduler, vae, other >>

\* The first of two calls, or the second call with the arguments of the first.
InvokeTwice ==
    InvokeWith(IF previous.done THEN {previous.args}
               ELSE TwinArguments(vae_scale_factor))

\* ------------------------------------------ a second invocation (380-424)
\* Whether the second invocation runs on the pipeline of the first, and so on
\* its self.scheduler (lines 75-127 keep the one scheduler given to __init__).
SharesScheduler_Always(o) == TRUE

SharesScheduler(o) == o.shared

\* the scheduler state the second invocation works on
SchedulerOfOther == IF SharesScheduler(other) THEN scheduler ELSE other.scheduler

\* the second invocation moves on, leaving the scheduler it works on as sched
OtherMoves(o, sched) ==
    IF SharesScheduler(other)
    THEN /\ other' = o
         /\ scheduler' = [scheduler EXCEPT !.timesteps = sched.timesteps,
                                           !.steps_taken = sched.steps_taken]
    ELSE /\ other' = [o EXCEPT !.scheduler = [timesteps |-> sched.timesteps,
                                              steps_taken |-> sched.steps_taken]]
         /\ UNCHANGED scheduler

\* what the second invocation never touches: the locals of the first
NotOthers ==
    UNCHANGED << vae_scale_factor, pc, error, args, batch_size, text_embeddings,
                 latents, timesteps_tensor, extra_step_kwargs, i, latent_model_input,
                 noise_pred, image, calls, vae, text_input_ids, warnings,
                 default_generator, previous, caller >>

\* A second invocation is made on the same pipeline, or on another pipeline
\* with a scheduler of the same kind, and has reached line 380.
OtherInvoke ==
    /\ other.pc = "absent"
    /\ \E shared \in BOOLEAN, steps \in 1..MaxSteps :
          other' = [NoOther EXCEPT !.pc = "set_timesteps", !.shared = shared,
                                  !.num_inference_steps = steps]
    /\ UNCHANGED scheduler
    /\ NotOthers

\* lines 380-384 of the second invocation
OtherSetTimesteps ==
    /\ other.pc = "set_timesteps"
    /\ LET timesteps == SetTimesteps(scheduler.kind, other.num_inference_steps)
       IN  OtherMoves([other EXCEPT !.timesteps_tensor = timesteps, !.i = 0,
                                   !.pc = LoopHead(0, timesteps)],
                      [timesteps |-> timesteps, steps_taken |-> 0])
    /\ NotOthers

\* lines 405-406 of the second invocation
OtherScaleModelInput ==
    /\ other.pc = "scale_model_input"
    /\ other' = [other EXCEPT !.pc = "unet"]
    /\ UNCHANGED scheduler
    /\ NotOthers

\* line 409 of the second invocation
OtherUNet ==
    /\ other.pc = "unet"
    /\ other' = [other EXCEPT !.pc = "step"]
    /\ UNCHANGED scheduler
    /\ NotOthers

\* line 417 of the second invocation
OtherStep ==
    /\ other.pc = "step"
    /\ OtherMoves([other EXCEPT !.i = @ + 1,
                                !.pc = LoopHead(other.i + 1, other.timesteps_tensor)],
                  [SchedulerOfOther EXCEPT !.steps_taken = @ + 1])
    /\ NotOthers

\* lines 423-437 of the second invocation
OtherDecode ==
    /\ other.pc = "decode"
    /\ other' = [other EXCEPT !.pc = "returned"]
    /\ UNCHANGED scheduler
    /\ NotOthers

\* The first or the second of two calls made one after the other.
InvokeInTurn == InvokeWith(SequenceArguments(vae_scale_factor))

\* A call that is followed to its end.
InvokeLive ==
    /\ ~previous.done
    /\ InvokeWith(LiveArguments(vae_scale_factor))

\* The call made beside a second invocation.
InvokeBeside ==
    /\ ~previous.done
    /\ InvokeWith(ConcurrentArguments(vae_scale_factor))

Next ==
    \/ Invoke
    \/ Tokenizer
    \/ GetTextFeatures
    \/ FeatureExtractor
    \/ GetImageFeatures
    \/ PrepareLatents
    \/ CallSetTimesteps
    \/ CallScaleModelInput
    \/ CallUNet
    \/ CallStep
    \/ CallbackReturns
    \/ CallbackRaises
    \/ CallDecode
    \/ CollaboratorRaises

Spec == Init /\ [][Next]_vars

\* One pipeline called twice with the same arguments, its VAE switched
\* between the two calls.
NextTwice ==
    \/ InvokeTwice
    \/ Tokenizer
    \/ GetTextFeatures
    \/ FeatureExtractor
    \/ GetImageFeatures
    \/ PrepareLatents
    \/ CallSetTimesteps
    \/ CallScaleModelInput
    \/ CallUNet
    \/ CallStep
    \/ CallbackReturns
    \/ CallbackRaises
    \/ CallDecode
    \/ CollaboratorRaises
    \/ Again
    \/ EnableVaeSlicing
    \/ DisableVaeSlicing
    \/ EnableVaeTiling
    \/ DisableVaeTiling

SpecTwice == Init /\ [][NextTwice]_vars

\* One pipeline called twice, one call after the other, with any arguments.
NextInTurn ==
    \/ InvokeInTurn
    \/ Tokenizer
    \/ GetTextFeatures
    \/ PrepareLatents
    \/ CallSetTimesteps
    \/ CallScaleModelInput
    \/ CallUNet
    \/ CallStep
    \/ CallbackReturns
    \/ CallbackRaises
    \/ CallDecode
    \/ CollaboratorRaises
    \/ Again

SpecInTurn == Init /\ [][NextInTurn]_vars

\* One call in which every collaborator and every callback call returns or
\* raises: whatever step of __call__ is possible is taken in the end.
NextLive ==
    \/ InvokeLive
    \/ Tokenizer
    \/ GetTextFeatures
    \/ PrepareLatents
    \/ CallSetTimesteps
    \/ CallScaleModelInput
    \/ CallUNet
    \/ CallStep
    \/ CallbackReturns
    \/ CallbackRaises
    \/ CallDecode
    \/ CollaboratorRaises

SpecLive == Init /\ [][NextLive]_vars /\ WF_vars(NextLive)

\* Two invocations at once, on one scheduler or on one scheduler each.
NextBeside ==
    \/ InvokeBeside
    \/ Tokenizer
    \/ GetTextFeatures
    \/ PrepareLatents
    \/ CallSetTimesteps
    \/ CallScaleModelInput
    \/ CallUNet
    \/ CallStep
    \/ CallDecode
    \/ OtherInvoke
    \/ OtherSetTimesteps
    \/ OtherScaleModelInput
    \/ OtherUNet
    \/ OtherStep
    \/ OtherDecode

SpecBeside == Init /\ [][NextBeside]_vars

\* ------------------------------------------------------------ properties
Ops == {calls[k].op : k \in 1..Len(calls)}

Invoked == pc # "idle"

\* the positions of __call__ before line 365
BeforeLatents ==
    {"idle", "tokenizer", "get_text_features", "feature_extractor",
     "get_image_features", "prepare_latents"}

EmbeddingOps == {"tokenizer", "get_text_features", "feature_extractor", "get_image_features"}

\* B x num_images_per_prompt, from the arguments alone
EffectiveBatch == (IF args.prompt.type = "str" THEN 1 ELSE args.prompt.len)
                      * args.num_images_per_prompt

\* the shape the documentation asks of latents, from the arguments alone
Expected ==
    ExpectedShape(args.prompt, args.num_images_per_prompt, args.height, args.width,
                  vae_scale_factor)

IsZeroRow(row) == \A p \in 1..Len(row) : row[p] = 0

\* C1: a call with an accepted prompt type, an accepted callback_steps and
\* positive height and width fails with the size error, before any collaborator
\* is called, exactly when height or width is not divisible by vae_scale_factor.
C1_DivisibleByFactor ==
    (Invoked /\ error \notin {"prompt", "callback_steps"}
        /\ args.height > 0 /\ args.width > 0) =>
        /\ (args.height % vae_scale_factor # 0 \/ args.width % vae_scale_factor # 0)
              => (pc = "raised" /\ error = "size" /\ calls = <<>>)
        /\ (args.height % vae_scale_factor = 0 /\ args.width % vae_scale_factor = 0)
              => error # "size"

\* C2: with height and width divisible by vae_scale_factor, the latents have
\* the shape (B x n, in_channels, height / f, width / f) from their preparation
\* to the end, one row per batch element after every step, and the returned
\* image batch has the shape (B x n, height, width, channels), whatever the
\* scheduler.
C2_OutputShape ==
    (args.height % vae_scale_factor = 0 /\ args.width % vae_scale_factor = 0) =>
        /\ (pc \notin BeforeLatents /\ pc # "raised") =>
              /\ latents.shape = << EffectiveBatch, in_channels,
                                    args.height \div vae_scale_factor,
                                    args.width \div vae_scale_factor >>
              /\ Len(latents.rows) = EffectiveBatch
        /\ pc = "returned" =>
              image = << EffectiveBatch, args.height, args.width, out_channels >>

C2_Witness ==
    /\ pc = "returned"
    /\ vae_scale_factor = 16
    /\ image = <<2, 16, 16, out_channels>>
    /\ Len(latents.rows) = 2
    /\ "step" \in Ops

ValidationErrors == {"prompt", "size", "callback_steps", "latents"}

SchedulerUntouched == scheduler.timesteps = <<>> /\ scheduler.steps_taken = 0

\* C3 as stated: every validation error is raised before any collaborator is
\* called, the latents shape error included.
C3_BeforeAnyCollaborator ==
    error \in ValidationErrors => (pc = "raised" /\ calls = <<>>)

\* C3, amended: the prompt, size and callback_steps errors are raised before
\* any collaborator is called and leave nothing computed; the latents shape
\* error is raised after the tokenizer and CLIP have run (and only they), before
\* any scheduler, UNet or VAE call; and supplied latents of a wrong shape never
\* get past line 376.
C3_ValidationOrder ==
    /\ error \in {"prompt", "size", "callback_steps"} =>
          /\ pc = "raised" /\ calls = <<>>
          /\ text_embeddings = <<>> /\ latents = None /\ SchedulerUntouched
    /\ error = "latents" =>
          /\ pc = "raised"
          /\ {"tokenizer", "get_text_features"} \subseteq Ops
          /\ Ops \subseteq EmbeddingOps
          /\ latents = None /\ SchedulerUntouched /\ image = <<>>
    /\ (Invoked /\ args.latents.given /\ args.latents.shape # Expected) =>
          /\ Ops \subseteq EmbeddingOps
          /\ pc \in BeforeLatents \cup {"raised"}

C3_Witness ==
    /\ pc = "raised" /\ error = "latents"
    /\ "get_image_features" \in Ops

\* C4: supplied latents whose shape is not (B x n, in_channels, height // f,
\* width // f) end the call with the latents error (unless an earlier check or
\* an embedding collaborator has ended it already), with no scheduler, UNet or
\* VAE call and the scheduler as it was; supplied latents of exactly that shape
\* are never refused, are the latents the scheduler is initialised with, and
\* nothing is sampled.
C4_SuppliedLatents ==
    (Invoked /\ args.latents.given) =>
        /\ args.latents.shape # Expected =>
              /\ Ops \cap {"set_timesteps", "scale_model_input", "unet", "step",
                           "decode", "randn_tensor"} = {}
              /\ SchedulerUntouched /\ image = <<>>
              /\ pc \notin BeforeLatents =>
                    /\ pc = "raised"
                    /\ error \in {"prompt", "size", "callback_steps", "collaborator",
                                  "latents"}
                    /\ error = "latents" <=> "get_text_features" \in Ops
                                               /\ ~calls[Len(calls)].raised
        /\ args.latents.shape = Expected =>
              /\ error # "latents"
              /\ "randn_tensor" \notin Ops
              /\ pc = "set_timesteps" => latents = args.latents

C4_Witness ==
    /\ pc = "raised" /\ error = "latents"
    /\ args.num_images_per_prompt = 2
    /\ ~args.retrieved_images.given

\* C5: a callback_steps that is None, not an int, or an int <= 0 ends the call
\* in an error before any collaborator is called, with or without a callback
\* (the callback_steps error itself once prompt and size have passed); a
\* positive int is never refused.
C5_CallbackSteps ==
    Invoked =>
        /\ (args.callback_steps.type # "int" \/ args.callback_steps.val <= 0) =>
              /\ pc = "raised" /\ calls = <<>>
              /\ error \in {"prompt", "size", "callback_steps"}
              /\ (PromptTypeOk(args.prompt) /\ ~SizeInvalid(args.height, args.width))
                    => error = "callback_steps"
        /\ (args.callback_steps.type = "int" /\ args.callback_steps.val > 0) =>
              error # "callback_steps"

C5_Witness ==
    /\ pc = "raised" /\ error = "callback_steps"
    /\ ~args.callback
    /\ args.callback_steps.type = "float"

\* C6 as stated: every sequence of strings, of any sequence type, is accepted
\* with batch size its length, a string gives batch size 1, and with anything
\* else the call ends before the tokenizer is called.
C6_AnySequenceOfStrings ==
    Invoked =>
        IF args.prompt.strs /\ args.prompt.type \in {"str", "list", "tuple"}
        THEN /\ error # "prompt"
             /\ batch_size = IF args.prompt.type = "str" THEN 1 ELSE args.prompt.len
        ELSE calls = <<>> /\ pc \in {"raised", "tokenizer"}

\* C6, amended: a prompt that is neither a str nor a list is refused before
\* any collaborator is called; a str gives batch size 1 and a list gives batch
\* size len(prompt), whatever its elements are.
C6_StrOrList ==
    Invoked =>
        /\ args.prompt.type \notin {"str", "list"} =>
              (pc = "raised" /\ error = "prompt" /\ calls = <<>>)
        /\ args.prompt.type = "str" => (error # "prompt" /\ batch_size = 1)
        /\ args.prompt.type = "list" => (error # "prompt" /\ batch_size = args.prompt.len)

C6_Witness ==
    /\ pc = "raised" /\ error = "prompt"
    /\ args.prompt.type = "tuple" /\ args.prompt.strs

\* C7: a call with an accepted prompt type and an accepted callback_steps whose
\* height or width is <= 0 ends with the size error before any collaborator is
\* called.
C7_PositiveSize ==
    (Invoked /\ error \notin {"prompt", "callback_steps"}
        /\ (args.height <= 0 \/ args.width <= 0)) =>
        (pc = "raised" /\ error = "size" /\ calls = <<>>)

\* the calls of one collaborator, in the order they were made
CallsOf(op) == SelectSeq(calls, LAMBDA c : c.op = op)

\* the step indices the callback was called with, in order
CallbackIndices == [k \in 1..Len(CallsOf("callback")) |-> CallsOf("callback")[k].i]

\* 0, callback_steps, 2 * callback_steps, ...: count indices in all
Multiples(count, callback_steps) == [k \in 1..count |-> (k - 1) * callback_steps]

C9_OneDenoiserCall ==
    /\ \A k \in 1..Len(calls) :
          (calls[k].op = "unet" /\ ~calls[k].raised) =>
              IF args.guidance_scale > 1
              THEN /\ Len(calls[k].sample) = 2 * EffectiveBatch
                   /\ Len(calls[k].cond) = 2 * EffectiveBatch
              ELSE /\ Len(calls[k].sample) = EffectiveBatch
                   /\ Len(calls[k].cond) = EffectiveBatch
                   /\ \A r \in 1..Len(calls[k].cond) : ~IsZeroRow(calls[k].cond[r])
    /\ \A k \in 1..Len(calls) :
          calls[k].op = "step" =>
              /\ k > 2
              /\ calls[k - 1].op = "unet" /\ calls[k - 1].i = calls[k].i
              /\ calls[k - 2].op = "scale_model_input" /\ calls[k - 2].i = calls[k].i
    /\ \A k, m \in 1..Len(calls) :
          (calls[k].op = "unet" /\ calls[m].op = "unet" /\ calls[k].i = calls[m].i)
              => k = m

C9_Witness ==
    /\ pc = "returned"
    /\ args.guidance_scale = 1
    /\ EffectiveBatch = 4
    /\ Len(CallsOf("unet")) = 2
    /\ \A k \in 1..2 : Len(CallsOf("unet")[k].cond) = 4

\* the positions of the rows of a conditioning that are (not) the zero block
ZeroRows(cond) == SelectSeq([r \in 1..Len(cond) |-> r], LAMBDA r : IsZeroRow(cond[r]))
RealRows(cond) == SelectSeq([r \in 1..Len(cond) |-> r], LAMBDA r : ~IsZeroRow(cond[r]))

\* C10: the prediction handed to scheduler.step is, with guidance_scale > 1,
\* pred_uncond + guidance_scale * (pred_cond - pred_uncond) row by row, where
\* pred_uncond are the rows the UNet returned for the zero conditioning and
\* pred_cond those it returned for the real conditioning; with
\* guidance_scale <= 1 it is what the UNet returned.
C10_GuidedPrediction ==
    \A k \in 2..Len(calls) :
        (calls[k].op = "step" /\ ~calls[k].raised) =>
            LET unet == calls[k - 1]
                uncond == ZeroRows(unet.cond)
                cond == RealRows(unet.cond)
            IN  /\ unet.op = "unet"
                /\ IF args.guidance_scale > 1
                   THEN /\ Len(uncond) = EffectiveBatch /\ Len(cond) = EffectiveBatch
                        /\ calls[k].pred =
                              [r \in 1..EffectiveBatch |->
                                  unet.out[uncond[r]]
                                  + args.guidance_scale
                                      * (unet.out[cond[r]] - unet.out[uncond[r]])]
                   ELSE calls[k].pred = unet.out

C10_Witness ==
    /\ pc = "returned"
    /\ args.guidance_scale = 2
    /\ EffectiveBatch = 2
    /\ args.retrieved_images.given
    /\ Len(CallsOf("step")) = 2

\* the retrieved-image embeddings of the call, in the order they were given
SharedImages == [r \in 1..args.retrieved_images.n |-> ImageEmb(r)]

\* B: the number of prompts of the call
PromptCount == IF args.prompt.type = "str" THEN 1 ELSE args.prompt.len

\* C11: with B prompts and R >= 0 retrieved images, the conditioning built by
\* lines 331-345 has one row per prompt, row b being the embedding of prompt b
\* followed by the R image embeddings in the order given; every row the UNet
\* is conditioned on has length 1 + R, and every non-zero row ends with the
\* same R image embeddings.
C11_SharedImages ==
    /\ pc = "prepare_latents" =>
          /\ Len(text_embeddings) = PromptCount
          /\ \A b \in 1..PromptCount :
                text_embeddings[b] = <<TextEmb(b)>> \o SharedImages
    /\ \A k \in 1..Len(calls) :
          (calls[k].op = "unet" /\ ~calls[k].raised) =>
              \A r \in 1..Len(calls[k].cond) :
                  /\ Len(calls[k].cond[r]) = 1 + args.retrieved_images.n
                  /\ ~IsZeroRow(calls[k].cond[r]) =>
                        SubSeq(calls[k].cond[r], 2, 1 + args.retrieved_images.n)
                            = SharedImages

C11_Witness ==
    /\ pc = "prepare_latents"
    /\ PromptCount = 2
    /\ args.retrieved_images.n = 2
    /\ Len(text_embeddings[2]) = 3

\* the positions of __call__ after the conditioning and the latents are ready
AfterConditioning ==
    {"set_timesteps", "scale_model_input", "unet", "step", "callback", "decode",
     "returned"}

\* C12: after the replication by num_images_per_prompt = n the conditioning
\* (the zero block aside) has B * n rows of length 1 + R, and row k (from 0)
\* is the unreplicated sequence of prompt floor(k / n).
C12_ReplicatedAlongBatch ==
    pc \in AfterConditioning =>
        LET n == args.num_images_per_prompt
            real == RealRows(text_embeddings)
        IN  /\ Len(real) = PromptCount * n
            /\ \A k \in 1..Len(real) :
                  text_embeddings[real[k]]
                      = <<TextEmb(((k - 1) \div n) + 1)>> \o SharedImages

C12_Witness ==
    /\ pc = "returned"
    /\ PromptCount = 2
    /\ args.num_images_per_prompt = 2
    /\ args.retrieved_images.n = 1
    /\ Len(RealRows(text_embeddings)) = 4

\* C13: when the callback raises at step i, that call is the last thing the
\* invocation does: the call ends with the callback's exception, no
\* collaborator is called for a later timestep, the decoder is never called,
\* no image is returned, and no further step of the invocation is possible.
C13_CallbackExceptionEndsTheCall ==
    /\ \A k \in 1..Len(calls) :
          (calls[k].op = "callback" /\ calls[k].raised) =>
              /\ k = Len(calls)
              /\ pc = "raised" /\ error = "callback"
              /\ image = <<>>
              /\ "decode" \notin Ops
              /\ \A j \in 1..k : calls[j].i <= calls[k].i
              /\ ~ENABLED Next
    /\ error = "callback" =>
          /\ calls # <<>>
          /\ calls[Len(calls)].op = "callback" /\ calls[Len(calls)].raised

C13_Witness ==
    /\ error = "callback"
    /\ calls[Len(calls)].i = 1
    /\ Len(timesteps_tensor) = 3
    /\ Len(CallsOf("step")) = 2

\* C14: every call of scheduler.step is passed eta exactly when the step of
\* that scheduler declares eta, and generator exactly when it declares
\* generator, with the values of the call's arguments; all the step calls of an
\* invocation are passed the same extra arguments, those computed before the
\* loop; and no scheduler makes the call fail over a keyword it lacks.
C14_ExtraStepArguments ==
    /\ \A k \in 1..Len(calls) :
          (calls[k].op = "step" /\ (~calls[k].raised \/ error = "TypeError")) =>
              /\ DOMAIN calls[k].kwargs
                    = StepParameters(scheduler.kind) \cap {"eta", "generator"}
              /\ "eta" \in DOMAIN calls[k].kwargs => calls[k].kwargs.eta = args.eta
              /\ "generator" \in DOMAIN calls[k].kwargs =>
                    calls[k].kwargs.generator = args.generator
              /\ calls[k].kwargs = extra_step_kwargs
    /\ error # "TypeError"

C14_Witness ==
    /\ pc = "returned"
    /\ scheduler.kind = "euler_ancestral"
    /\ Len(CallsOf("step")) = 2
    /\ \A k \in 1..2 : DOMAIN CallsOf("step")[k].kwargs = {"generator"}

\* C16: when a prompt has more tokens than the tokenizer's maximum, the call
\* does not fail over it: a truncation warning is logged, the ids used are cut
\* to the maximum length, and the call returns its result.
C16_TruncationWarned ==
    (pc = "returned" /\ args.prompt.tokens > ModelMaxLength) =>
        /\ warnings = <<"truncated">>
        /\ text_input_ids = ModelMaxLength
        /\ image # <<>>

\* the scheduler.step calls that returned, in order
Steps == SelectSeq(calls, LAMBDA c : c.op = "step" /\ ~c.raised)

\* the latents the call starts from, before line 387 scales them
InitialRows ==
    IF args.latents.given THEN args.latents.rows
    ELSE CallsOf("randn_tensor")[1].out

\* C18: vae.decode is called at most once in an invocation and exactly once in
\* one that returns; when it is called, scheduler.step has returned for every
\* timestep, the last of them for the last timestep, nothing has raised, and
\* the decoder is given 1 / scaling_factor times the latents that last step
\* returned (with an empty timestep sequence, times the scaled initial
\* latents); it is the last call of the invocation, and an invocation that
\* ended in an error before it returns no image.
C18_DecodeAfterLastStep ==
    LET T == Len(timesteps_tensor)
    IN  /\ \A k \in 1..Len(calls) :
              calls[k].op = "decode" =>
                  /\ k = Len(calls)
                  /\ \A j \in 1..(k - 1) : ~calls[j].raised
                  /\ Len(Steps) = T /\ i = T
                  /\ T > 0 => Steps[T].t = timesteps_tensor[T] /\ Steps[T].i = T - 1
                  /\ ~calls[k].raised =>
                        calls[k].sample =
                            Scaled(IF T > 0 THEN Steps[T].out
                                   ELSE Scaled(InitialRows, scheduler.init_noise_sigma),
                                   InvScalingFactor)
        /\ pc = "returned" => Len(CallsOf("decode")) = 1 /\ image # <<>>
        /\ pc = "raised" => image = <<>>

C18_Witness ==
    /\ pc = "returned"
    /\ Len(timesteps_tensor) = 3
    /\ args.callback /\ args.callback_steps.val = 1
    /\ calls[Len(calls)].op = "decode"
    /\ calls[Len(calls)].sample = Scaled(Steps[3].out, InvScalingFactor)

\* the calls of one collaborator that returned, in order
Returned(op) == SelectSeq(calls, LAMBDA c : c.op = op /\ ~c.raised)

\* C19: the loop walks the timestep sequence the scheduler produced, in order
\* and without skipping or repeating: the k-th scale_model_input, UNet and
\* step calls all receive the k-th timestep, an iteration calls them in that
\* order, the k-th step receives the latents the (k-1)-th step returned (the
\* first one the scaled initial latents), and an invocation that returns has
\* called step exactly once per timestep.
C19_OneStepPerTimestep ==
    LET T == Len(timesteps_tensor)
        scaled == Returned("scale_model_input")
        unets == Returned("unet")
    IN  /\ timesteps_tensor = scheduler.timesteps
        /\ Len(Steps) <= Len(unets) /\ Len(unets) <= Len(scaled)
        /\ Len(scaled) <= Len(Steps) + 1 /\ Len(scaled) <= T
        /\ \A k \in 1..Len(scaled) :
              scaled[k].i = k - 1 /\ scaled[k].t = timesteps_tensor[k]
        /\ \A k \in 1..Len(unets) :
              /\ unets[k].i = k - 1 /\ unets[k].t = timesteps_tensor[k]
              /\ unets[k].sample = scaled[k].out
        /\ \A k \in 1..Len(Steps) :
              /\ Steps[k].i = k - 1 /\ Steps[k].t = timesteps_tensor[k]
              /\ Steps[k].sample =
                    IF k = 1 THEN Scaled(InitialRows, scheduler.init_noise_sigma)
                    ELSE Steps[k - 1].out
        /\ pc = "returned" => Len(Steps) = T

C19_Witness ==
    /\ pc = "returned"
    /\ Len(timesteps_tensor) = 3
    /\ Len(Steps) = 3
    /\ Steps[3].sample = Steps[2].out
    /\ Steps[1].t > Steps[2].t /\ Steps[2].t > Steps[3].t

\* the positions of __call__ inside and after the denoising loop
AfterSetTimesteps == {"scale_model_input", "unet", "step", "callback", "decode", "returned"}

\* C20: the scheduler is initialised exactly once per invocation, before it is
\* used for anything else: every scale_model_input, UNet, step, callback and
\* decode call follows the one set_timesteps call; until that call the
\* scheduler is untouched and the latents are as sampled or supplied; after it,
\* the latents the loop starts from are the initial latents times the
\* init_noise_sigma the scheduler has after initialisation, multiplied once,
\* sampled or supplied alike; the scheduler then counts one step per step call.
C20_SchedulerLifecycle ==
    LET sets == CallsOf("set_timesteps")
    IN  /\ Len(sets) <= 1
        /\ \A k \in 1..Len(calls) :
              calls[k].op \in AfterSetTimesteps =>
                  \E j \in 1..(k - 1) :
                      calls[j].op = "set_timesteps" /\ ~calls[j].raised
        /\ (pc = "set_timesteps" \/ (Len(sets) = 1 /\ sets[1].raised)) =>
              /\ SchedulerUntouched /\ scheduler.init_noise_sigma = 1
              /\ latents.rows = InitialRows
        /\ pc \in AfterSetTimesteps =>
              /\ Len(sets) = 1 /\ sets[1].t = args.num_inference_steps
              /\ scheduler.init_noise_sigma = InitNoiseSigma(scheduler.kind)
              /\ scheduler.steps_taken = Len(Steps)
              /\ Steps = <<>> /\ pc # "returned" =>
                    latents.rows = Scaled(InitialRows, scheduler.init_noise_sigma)
              /\ Returned("scale_model_input") # <<>> =>
                    Returned("scale_model_input")[1].sample =
                        LatentModelInput(Scaled(InitialRows, scheduler.init_noise_sigma),
                                         DoClassifierFreeGuidance(args.guidance_scale))

C20_Witness ==
    /\ pc = "returned"
    /\ scheduler.kind = "euler_ancestral"
    /\ args.latents.given
    /\ Len(Steps) = 2
    /\ Steps[1].sample = Scaled(args.latents.rows, 2)

\* C21: with guidance_scale > 1 the conditioning every UNet call receives is
\* E all-zero rows followed by the E conditional rows, E the effective batch;
\* every row, zero or not, has length 1 + R, so the positions of the retrieved
\* images are zero in the unconditional block too, and row E + k is the
\* conditional row whose zero counterpart is row k. Without guidance the
\* conditioning is the E conditional rows alone.
C21_ZeroBlockFirst ==
    \A k \in 1..Len(calls) :
        (calls[k].op = "unet" /\ ~calls[k].raised) =>
            LET cond == calls[k].cond
                E == EffectiveBatch
            IN  /\ \A r \in 1..Len(cond) : Len(cond[r]) = 1 + args.retrieved_images.n
                /\ IF args.guidance_scale > 1
                   THEN /\ Len(cond) = 2 * E
                        /\ \A r \in 1..E : IsZeroRow(cond[r])
                        /\ \A r \in (E + 1)..(2 * E) :
                              /\ ~IsZeroRow(cond[r])
                              /\ \A p \in 1..Len(cond[r]) : cond[r][p] # 0
                   ELSE /\ Len(cond) = E
                        /\ \A r \in 1..E : ~IsZeroRow(cond[r])

C21_Witness ==
    /\ pc = "returned"
    /\ args.guidance_scale = 2
    /\ args.retrieved_images.n = 2
    /\ EffectiveBatch = 4
    /\ Returned("unet") # <<>>
    /\ Len(Returned("unet")[1].cond) = 8
    /\ IsZeroRow(Returned("unet")[1].cond[4])
    /\ Len(Returned("unet")[1].cond[4]) = 3


\* C22: every callback call comes right after the scheduler.step call of the
\* same iteration, which returned, and is given that iteration's index, its
\* timestep and the latents that step returned; a step after which the
\* callback is due is followed by the callback and by nothing else; while the
\* callback runs no collaborator can be called, and the call that follows it
\* belongs to the next iteration or is the decode.
C22_CallbackAfterItsStep ==
    /\ \A k \in 1..Len(calls) :
          calls[k].op = "callback" =>
              /\ k > 1
              /\ calls[k - 1].op = "step" /\ ~calls[k - 1].raised
              /\ calls[k].i = calls[k - 1].i
              /\ calls[k].t = calls[k - 1].t
              /\ calls[k].t = timesteps_tensor[calls[k].i + 1]
              /\ calls[k].sample = calls[k - 1].out
              /\ k < Len(calls) =>
                    \/ calls[k + 1].op = "decode"
                    \/ /\ calls[k + 1].op = "scale_model_input"
                       /\ calls[k + 1].i = calls[k].i + 1
    /\ \A k \in 1..Len(calls) :
          (/\ calls[k].op = "step" /\ ~calls[k].raised
           /\ args.callback /\ calls[k].i % args.callback_steps.val = 0) =>
              IF k < Len(calls) THEN calls[k + 1].op = "callback"
              ELSE pc = "callback" /\ i = calls[k].i
    /\ pc = "callback" =>
          /\ calls[Len(calls)].op = "step"
          /\ ~ENABLED (CallScaleModelInput \/ CallUNet \/ CallStep \/ CallDecode
                       \/ CollaboratorRaises \/ CallSetTimesteps)

C22_Witness ==
    /\ pc = "returned"
    /\ args.callback /\ args.callback_steps.val = 2
    /\ Len(timesteps_tensor) = 3
    /\ Len(CallsOf("callback")) = 2
    /\ CallsOf("callback")[2].i = 2
    /\ CallsOf("callback")[2].sample = Steps[3].out


\* the collaborators called once per iteration, and those called once per call
PerTimestep == {"scale_model_input", "unet", "step"}
PerCall == Collaborators \ PerTimestep

\* C23: a collaborator call that raises is the last call of the invocation: the
\* invocation ends with that exception, makes no further call, returns no
\* image and can take no further step; and no collaborator is called twice for
\* one timestep, nor the tokenizer, the embedding calls, set_timesteps or the
\* decoder twice in one invocation, failed calls counted.
C23_FailureEndsTheCall ==
    /\ \A k \in 1..Len(calls) :
          (calls[k].raised /\ calls[k].op \in Collaborators) =>
              /\ k = Len(calls)
              /\ pc = "raised" /\ error \in {"collaborator", "TypeError"}
              /\ image = <<>>
              /\ ~ENABLED Next
    /\ error = "collaborator" =>
          /\ calls # <<>>
          /\ calls[Len(calls)].raised /\ calls[Len(calls)].op \in Collaborators
    /\ \A j, k \in 1..Len(calls) :
          (j < k /\ calls[j].op = calls[k].op) =>
              /\ calls[j].op \notin PerCall
              /\ calls[j].op \in PerTimestep => calls[j].i < calls[k].i

C23_Witness ==
    /\ error = "collaborator"
    /\ calls[Len(calls)].op = "unet"
    /\ calls[Len(calls)].i = 1
    /\ Len(timesteps_tensor) = 3
    /\ Len(Steps) = 1


\* C26: from the moment __call__ is entered, whatever it does and however it
\* ends, the caller's latents tensor holds the values it was passed with and
\* the caller's images hold their pixels: the local name latents is bound to
\* the caller's tensor only between line 377 and line 387, and the scaled,
\* stepped and rescaled latents and the normalised images are other objects.
C26_InputsUntouched ==
    Invoked =>
        /\ caller.latents = args.latents.rows
        /\ caller.images = Pixels(args.retrieved_images.n)
        /\ caller.aliased => args.latents.given
        /\ pc \in AfterSetTimesteps => ~caller.aliased

C26_Witness ==
    /\ pc = "returned"
    /\ args.latents.given
    /\ args.retrieved_images.n = 2
    /\ scheduler.kind = "euler_ancestral"
    /\ caller.latents = Supplied(Expected).rows
    /\ latents.rows # caller.latents
    /\ caller.images = <<255, 0>>


\* ------------------------------------- properties of two calls (SpecTwice)
\* The second call reads the random source in the state the first call read
\* it in: the generator the arguments pass, or without one the default
\* generator, which the first call found in state 0.
SameRandomSource == args.generator # 0 \/ previous.default_at_entry = 0

SecondCall == previous.done /\ pc # "idle"

\* no collaborator or callback raised in either call before the k-th call
NeitherRaisedBefore(k) ==
    \A j \in 1..(k - 1) : ~previous.calls[j].raised /\ ~calls[j].raised

NeitherRaised ==
    /\ \A j \in 1..Len(previous.calls) : ~previous.calls[j].raised
    /\ \A j \in 1..Len(calls) : ~calls[j].raised

Min(a, b) == IF a < b THEN a ELSE b

\* the draws the call has made so far from torch's default generator
DefaultDraws ==
    IF args.generator # 0 THEN 0
    ELSE Len(SelectSeq(calls, LAMBDA c : c.op = "randn_tensor" /\ c.out # <<>>))
         + (IF "generator" \in StepParameters(scheduler.kind)
            THEN Len(SelectSeq(calls, LAMBDA c : c.op = "step" /\ ~c.raised))
            ELSE 0)

\* C15: a second call with the arguments of the first, on the same pipeline and
\* scheduler and with the random source in the same state, makes the same
\* collaborator calls with the same arguments and results as the first for as
\* long as neither meets a raising collaborator, ends the same way, and returns
\* the same image. Randomness is read only by the sampling of the initial
\* latents (never when latents are supplied) and by scheduler.step when it
\* declares generator; with a generator passed, the default generator is left
\* alone.
C15_Deterministic ==
    /\ (SecondCall /\ SameRandomSource) =>
          /\ \A k \in 1..Min(Len(previous.calls), Len(calls)) :
                NeitherRaisedBefore(k) =>
                    /\ previous.calls[k].op = calls[k].op
                    /\ previous.calls[k].i = calls[k].i
                    /\ NeitherRaisedBefore(k + 1) => previous.calls[k] = calls[k]
          /\ (pc \in {"returned", "raised"} /\ NeitherRaised) =>
                /\ pc = previous.pc /\ error = previous.error
                /\ calls = previous.calls
                /\ image = previous.image
    /\ "randn_tensor" \in Ops => ~args.latents.given
    /\ default_generator = previous.default_at_entry + DefaultDraws

C15_Witness ==
    /\ SecondCall /\ pc = "returned" /\ previous.pc = "returned"
    /\ args.generator = 0 /\ ~args.latents.given
    /\ scheduler.kind = "euler_ancestral"
    /\ SameRandomSource
    /\ default_generator = MaxSteps
    /\ Len(CallsOf("step")) = MaxSteps - 1

\* a step that changes a flag of the VAE happens between two calls and changes
\* nothing else of the pipeline
FlagOnly ==
    vae' # vae =>
        /\ pc = "idle"
        /\ UNCHANGED << vae_scale_factor, scheduler, pc, error, args, batch_size,
                        text_embeddings, latents, timesteps_tensor, extra_step_kwargs,
                        i, latent_model_input, noise_pred, image, calls,
                        text_input_ids, warnings, default_generator, previous, other, caller >>

\* the second call against the first, made with both flags off
SameCallsAsUntoggled ==
    (SecondCall /\ SameRandomSource) =>
        /\ \A k \in 1..Min(Len(previous.calls), Len(calls)) :
              NeitherRaisedBefore(k + 1) => previous.calls[k] = calls[k]
        /\ Len(CallsOf("decode")) <= 1
        /\ (pc = "returned" /\ previous.pc = "returned") =>
              /\ calls = previous.calls
              /\ Len(CallsOf("decode")) = 1
              /\ CallsOf("decode")[1].sample = latents.rows
              /\ Len(CallsOf("decode")[1].sample) = EffectiveBatch
              /\ image = previous.image

\* C17: enabling or disabling VAE slicing or tiling changes the flags of the
\* VAE and nothing else; whatever the flags are when the pipeline is called
\* again, that call makes the tokenizer, embedding, scheduler and denoiser
\* calls of the same call made before any switch, with the same arguments,
\* and one decode call on the whole batch of the same final latents; with
\* the flags switched back off this is again the untoggled behaviour.
C17_VaeSwitches == [][FlagOnly]_vars /\ []SameCallsAsUntoggled

C17_Witness ==
    /\ SecondCall /\ pc = "returned" /\ previous.pc = "returned"
    /\ vae.use_slicing /\ vae.use_tiling
    /\ EffectiveBatch = MaxBatch
    /\ Len(CallsOf("decode")) = 1

\* ------------------------- properties of a call followed to its end (SpecLive)
InLoop == {"scale_model_input", "unet", "step", "callback"}

Ended == pc \in {"returned", "raised"}

\* the loop never runs past the timestep sequence, and ends as claimed
LoopBounded ==
    LET T == Len(timesteps_tensor)
        begun == CallsOf("scale_model_input")
    IN  /\ pc \in InLoop => i < T
        /\ Len(begun) <= T
        /\ \A k \in 1..Len(begun) : begun[k].i = k - 1
        /\ pc = "returned" =>
              /\ Len(Returned("scale_model_input")) = T /\ Len(Steps) = T
              /\ Len(Returned("decode")) = 1
              /\ image # <<>> /\ error = "none"
              /\ T = 0 =>
                    /\ Ops \cap InLoop = {}
                    /\ Returned("decode")[1].sample =
                          Scaled(Scaled(InitialRows, scheduler.init_noise_sigma),
                                 InvScalingFactor)
        /\ pc = "raised" => error # "none" /\ image = <<>>

\* from set_timesteps on, the timestep sequence of the call stays as it is
TimestepsFixed ==
    pc \in InLoop \cup {"decode", "returned", "raised"} =>
        timesteps_tensor' = timesteps_tensor

\* C27: provided every collaborator and callback call returns or raises, every
\* invocation ends, by returning one image batch or by raising. The loop
\* begins one iteration per element of the timestep sequence read at line 384,
\* in order, never more; that sequence does not change while the loop runs;
\* a call that returns has completed one iteration per element; and with an
\* empty sequence no iteration runs and the decoder is given the scaled initial
\* latents.
C27_Terminates ==
    /\ []LoopBounded
    /\ [][TimestepsFixed]_vars
    /\ (Invoked ~> Ended)

C27_Witness ==
    /\ pc = "returned"
    /\ timesteps_tensor = <<>>
    /\ args.num_inference_steps = 1
    /\ Ops \cap InLoop = {}
    /\ "decode" \in Ops
    /\ image # <<>>

\* ------------------------- properties of two calls in turn (SpecInTurn)
\* the timestep sequence the arguments of the call ask of its scheduler
Asked == SetTimesteps(scheduler.kind, args.num_inference_steps)

\* C25: whatever call was made on the pipeline before (one that returned, one
\* that a callback or a collaborator aborted inside the loop, one that failed
\* validation), a call initialises the scheduler before its first step, and
\* the timestep sequence it walks and the number of its step calls are those
\* its own num_inference_steps asks for: the scheduler holds that sequence and
\* has counted this call's steps only.
C25_EachCallStartsAfresh ==
    /\ Steps # <<>> => Returned("set_timesteps") # <<>>
    /\ pc \in AfterSetTimesteps =>
          /\ timesteps_tensor = Asked
          /\ scheduler.timesteps = Asked
          /\ scheduler.steps_taken = Len(Steps)
          /\ \A k \in 1..Len(Steps) : Steps[k].t = Asked[k]
    /\ pc = "returned" => Len(Steps) = Len(Asked)

C25_Witness ==
    /\ previous.done
    /\ previous.error = "callback"
    /\ previous.args.num_inference_steps = 3
    /\ Len(previous.calls) > 4
    /\ pc = "returned"
    /\ args.num_inference_steps = 2
    /\ Len(Steps) = 2

\* ------------------------- properties of two invocations at once (SpecBeside)
\* the next timestep of the sequence a scheduler holds, -1 when it has none left
NextOf(sched) ==
    IF sched.steps_taken < Len(sched.timesteps)
    THEN sched.timesteps[sched.steps_taken + 1] ELSE -1

\* The first invocation is about to call scheduler.step with a timestep that
\* is not the next one of the sequence the scheduler holds.
StaleStep ==
    /\ pc = "step"
    /\ NextOf(scheduler) # Timestep(timesteps_tensor, i)

\* The same of the second invocation and the scheduler it works on.
OtherStaleStep ==
    /\ other.pc = "step"
    /\ NextOf(SchedulerOfOther) # Timestep(other.timesteps_tensor, other.i)

\* C24: nothing in __call__ keeps a second invocation off self.scheduler. With
\* one scheduler instance per invocation, every step call of either invocation
\* finds the scheduler holding that invocation's timestep sequence, at the
\* timestep the call passes. With one scheduler shared, a step call can find
\* the scheduler overwritten, and only after the other invocation has called
\* set_timesteps on it.
C24_SharedSchedulerRace ==
    /\ ~SharesScheduler(other) => ~StaleStep /\ ~OtherStaleStep
    /\ StaleStep => other.shared /\ other.pc \notin {"absent", "set_timesteps"}
    /\ OtherStaleStep => other.shared /\ "set_timesteps" \in Ops

C24_Witness ==
    /\ other.shared
    /\ StaleStep
    /\ Steps # <<>>
    /\ other.pc = "unet"
    /\ scheduler.timesteps # timesteps_tensor

====
